---------------------------- MODULE Spec2Model ----------------------------
(***************************************************************************)
(* Model of mustaine/encoder.py: the Hessian 1.0.2 serializer.             *)
(*                                                                         *)
(* Python values are records carrying their runtime class in the field     *)
(* `type`.  A byte string (Python 2 `str`) is [type |-> "str", value |-> b] *)
(* with b a sequence of 0..255; a `unicode` carries a sequence of code     *)
(* points; a Python tuple is [type |-> "tuple", items |-> <<...>>].  Fields *)
(* of different sorts have different names (truth, int, value, items,      *)
(* pairs), so that any two values can be compared.  The                    *)
(* outcome of a call is either Return(v) or Raise(what): every exception   *)
(* the module raises is a Python TypeError, told apart by its message.     *)
(*                                                                         *)
(* The module is written for Python 2 (handlers return `str` literals and  *)
(* add them to packed bytes), so Python 2 semantics are modelled.          *)
(***************************************************************************)
EXTENDS Integers, Sequences, FiniteSets, TLC

VARIABLES
    encoders,            \* the data types registered on the class being built
    mustaine_encoders,   \* Encoder._mustaine_encoders: the dispatch table
    pc,                  \* where control is
    op,                  \* the entry point of the call in progress / last made
    obj,                 \* the argument of that call
    result,              \* what the call returned or raised
    value,               \* local `value` of a chunking handler
    encoded              \* local `encoded` of a chunking handler

vars == <<encoders, mustaine_encoders, pc, op, obj, result, value, encoded>>

(***************************************************************************)
(* Bounds of the model.                                                    *)
(***************************************************************************)
\* longest list, tuple, argument list of the composite inputs
MaxLen == 2
\* number of whole 65535-unit chunks the longest chunked input spans
MaxChunks == 2

Range(s) == {s[i] : i \in 1..Len(s)}

(***************************************************************************)
(* Characters and byte strings.                                            *)
(***************************************************************************)
Upper == <<"A","B","C","D","E","F","G","H","I","J","K","L","M",
           "N","O","P","Q","R","S","T","U","V","W","X","Y","Z">>
Lower == <<"a","b","c","d","e","f","g","h","i","j","k","l","m",
           "n","o","p","q","r","s","t","u","v","w","x","y","z">>

\* ord(c) of a one-character string
ord(c) ==
    LET at(s) == CHOOSE i \in 1..Len(s) : s[i] = c
    IN  IF c \in Range(Upper) THEN 64 + at(Upper)
        ELSE IF c \in Range(Lower) THEN 96 + at(Lower)
        ELSE IF c = "_" THEN 95
        ELSE 46  \* "."

\* the bytes of a str literal, given as the tuple of its characters
b(chars) == [i \in 1..Len(chars) |-> ord(chars[i])]

Str(bytes) == [type |-> "str", value |-> bytes]
Tuple(items) == [type |-> "tuple", items |-> items]

Return(v) == [exc |-> "none", value |-> v]
Raise(what) == [exc |-> "TypeError", what |-> what]
Raised(r) == r.exc # "none"

\* the four TypeErrors of the module, by message
CannotSerialize == "mustaine.encoder cannot serialize"
RefusesToGuess  == "mustaine.encoder cowardly refuses to guess the encoding"
HeaderKeys      == "Call header keys must be strings"
CannotConcat    == "cannot concatenate 'str' and 'tuple' objects"


(***************************************************************************)
(* The classes.  bases(k) are the direct base classes of k under Python 2; *)
(* OrderedDict is the standard library's, Point and Record stand for       *)
(* classes a caller derives from mustaine.protocol.Object.                 *)
(***************************************************************************)
PyClasses ==
    {"object", "NoneType", "int", "bool", "long", "float", "basestring",
     "str", "unicode", "date", "datetime", "list", "tuple", "dict",
     "frozenset", "Object", "Remote", "Binary", "Call",
     "OrderedDict", "Point", "Record"}

bases(k) ==
    CASE k = "object"      -> {}
      [] k = "bool"        -> {"int"}
      [] k = "str"         -> {"basestring"}
      [] k = "unicode"     -> {"basestring"}
      [] k = "datetime"    -> {"date"}
      [] k = "OrderedDict" -> {"dict"}
      [] k = "Point"       -> {"Object"}
      [] k = "Record"      -> {"OrderedDict", "Point"}
      [] OTHER             -> {"object"}

\* k.mro(), as the set of its members: k and all its ancestors
RECURSIVE mro(_)
mro(k) == {k} \cup UNION {mro(p) : p \in bases(k)}

isinstance(o, cls) == cls \in mro(o.type)

\* the classes whose registrations are explored in every combination; a set
\* of these is iterated in every order, a set with other classes in two
\* opposite orders
MroUniverse ==
    {"object", "int", "bool", "dict", "OrderedDict", "Object", "Point", "Record"}

\* an arbitrary fixed enumeration of the classes (their hash order)
ClassOrder ==
    <<"tuple", "Remote", "bool", "dict", "object", "unicode", "Call", "int",
      "Record", "NoneType", "str", "list", "Point", "float", "date", "Object",
      "long", "OrderedDict", "Binary", "datetime", "basestring", "frozenset">>

Rank(k) == CHOOSE i \in 1..Len(ClassOrder) : ClassOrder[i] = k

Reverse(s) == [i \in 1..Len(s) |-> s[Len(s) + 1 - i]]

RECURSIVE Ascending(_)
Ascending(S) ==
    IF S = {} THEN <<>>
    ELSE LET k == CHOOSE x \in S : \A y \in S : Rank(x) <= Rank(y)
         IN  <<k>> \o Ascending(S \ {k})

Permutations_(S) ==
    {f \in [1..Cardinality(S) -> S] : \A i, j \in 1..Cardinality(S) : f[i] = f[j] => i = j}

\* list(d) of a set d: the orders in which the set may be iterated
list_of_set(S) ==
    IF S \subseteq MroUniverse THEN Permutations_(S)
    ELSE {Ascending(S), Reverse(Ascending(S))}

(***************************************************************************)
(* mustaine.utils.toposort: data maps an item to the set of items it       *)
(* depends on; the result lists sets of items, each set depending only on  *)
(* the sets before it.  Items named only as dependencies count as items    *)
(* with no dependency.  A cycle is an error.                               *)
(***************************************************************************)
RECURSIVE toposort_levels(_, _)
toposort_levels(items, deps) ==
    LET ordered == {i \in items : deps[i] = {}}
        rest    == items \ ordered
    IN  IF ordered = {} THEN [levels |-> <<>>, cyclic |-> items # {}]
        ELSE LET more == toposort_levels(rest, [i \in rest |-> deps[i] \ ordered])
             IN  [levels |-> <<ordered>> \o more.levels, cyclic |-> more.cyclic]

toposort(data) ==
    LET keys  == DOMAIN data
        items == keys \cup UNION {data[k] : k \in keys}
        deps  == [i \in items |-> IF i \in keys THEN data[i] \ {i} ELSE {}]
    IN  toposort_levels(items, deps)

RECURSIVE flatten(_)
flatten(levels) ==
    IF levels = <<>> THEN {<<>>}
    ELSE {h \o t : h \in list_of_set(Head(levels)), t \in flatten(Tail(levels))}

\* toposort_flatten(data, sort=False): every list it may return
toposort_flatten(data) == flatten(toposort(data).levels)

(***************************************************************************)
(* sort_mro(encoders): every dispatch table it may return.  An encoder is  *)
(* named by its data_type; type_encoders keeps one encoder per data_type.  *)
(***************************************************************************)
\* sort_mro without its reversed(): ancestors first
sort_mro_unreversed(encs) ==
    LET type_encoders  == encs
        mro_dict       == [k \in type_encoders |-> mro(k) \ {k}]
    IN  {SelectSeq(sorted_classes, LAMBDA cls : cls \in type_encoders) :
            sorted_classes \in toposort_flatten(mro_dict)}

sort_mro(encs) ==
    LET type_encoders  == encs
        mro_dict       == [k \in type_encoders |-> mro(k) \ {k}]
    IN  {SelectSeq(Reverse(sorted_classes), LAMBDA cls : cls \in type_encoders) :
            sorted_classes \in toposort_flatten(mro_dict)}

\* the data types the Encoder class registers with @encoder_for
EncoderTypes ==
    {"NoneType", "bool", "int", "long", "float", "datetime", "unicode", "str",
     "list", "tuple", "dict", "Object", "Remote", "Binary", "Call"}

\* Encoder._encode, lines 107-111: the first entry the value is an instance of
find_encoder(table, o) ==
    LET hits == {i \in 1..Len(table) : isinstance(o, table[i])}
    IN  IF hits = {} THEN "None"
        ELSE table[CHOOSE i \in hits : \A j \in hits : i <= j]


(***************************************************************************)
(* struct.pack with a big-endian format.  Integers are written in two's    *)
(* complement: a negative v as the bitwise complement of -(v + 1).         *)
(***************************************************************************)
RECURSIVE be_unsigned(_, _)
be_unsigned(n, width) ==
    IF width = 0 THEN <<>> ELSE be_unsigned(n \div 256, width - 1) \o <<n % 256>>

be_signed(v, width) ==
    IF v >= 0 THEN be_unsigned(v, width)
    ELSE LET m == be_unsigned(-(v + 1), width)
         IN  [i \in 1..width |-> 255 - m[i]]

pack_c(c)            == <<ord(c)>>
pack_cH(c, n)        == <<ord(c)>> \o be_unsigned(n, 2)
pack_2cH(c1, c2, n)  == <<ord(c1), ord(c2)>> \o be_unsigned(n, 2)
\* pack('<cl', ...): the byte order mistaken
pack_cl_little(c, v) == <<ord(c)>> \o Reverse(be_signed(v, 4))
pack_cl(c, v)        == <<ord(c)>> \o be_signed(v, 4)
pack_2cl(c1, c2, v)  == <<ord(c1), ord(c2)>> \o be_signed(v, 4)
pack_cq(c, v)        == <<ord(c)>> \o be_signed(v, 8)
pack_cd(c, x)        == <<ord(c)>> \o x.ieee754
pack_cBB(c, m, n)    == <<ord(c)>> \o be_unsigned(m, 1) \o be_unsigned(n, 1)

(***************************************************************************)
(* Text.  unicode.encode('utf-8') of code points below 0x10000;            *)
(* str.encode('ascii') of a Python 2 byte string first decodes it as       *)
(* ASCII, which fails on any byte above 0x7F; str.decode('utf-8').         *)
(***************************************************************************)
utf8_char(c) ==
    IF c < 128 THEN <<c>>
    ELSE IF c < 2048 THEN <<192 + (c \div 64), 128 + (c % 64)>>
    ELSE <<224 + (c \div 4096), 128 + ((c \div 64) % 64), 128 + (c % 64)>>

RECURSIVE utf8_encode(_)
utf8_encode(s) ==
    IF Len(s) = 0 THEN <<>>
    ELSE IF Len(s) = 1 THEN utf8_char(s[1])
    ELSE LET h == Len(s) \div 2
         IN  utf8_encode(SubSeq(s, 1, h)) \o utf8_encode(SubSeq(s, h + 1, Len(s)))

\* the ASCII test off by one: 0x80 taken for ASCII
ascii_encode_lenient(bytes) ==
    IF \E i \in 1..Len(bytes) : bytes[i] > 128 THEN [exc |-> "UnicodeDecodeError"]
    ELSE Return(bytes)

ascii_encode(bytes) ==
    IF \E i \in 1..Len(bytes) : bytes[i] > 127 THEN [exc |-> "UnicodeDecodeError"]
    ELSE Return(bytes)

\* len(value.decode('utf-8')) of well-formed UTF-8: the bytes that start a character
utf8_decode_len(bytes) ==
    Len(SelectSeq(bytes, LAMBDA c : c \div 64 # 2))

\* calendar.timegm(value.timetuple()): the time tuple has no microsecond field
timetuple(dt) == [days |-> dt.days, seconds |-> dt.seconds]
timegm(tt) == tt.days * 86400 + tt.seconds

\* a + b of two Python values
add(x, y) ==
    IF x.type = "str" /\ y.type = "str" THEN Return(Str(x.value \o y.value))
    ELSE Raise(CannotConcat)

\* reduce(operator.add, parts, b'') of byte strings
RECURSIVE reduce_add(_)
reduce_add(parts) ==
    IF parts = <<>> THEN <<>> ELSE Head(parts).value \o reduce_add(Tail(parts))

(***************************************************************************)
(* encoder_for: the handler's result, paired with RETURN_TYPES[data_type]  *)
(* when the data type has one.                                             *)
(***************************************************************************)
RETURN_TYPES ==
    [k \in EncoderTypes \ {"Object"} |->
        CASE k = "NoneType" -> b(<<"n","u","l","l">>)
          [] k = "bool"     -> b(<<"b","o","o","l">>)
          [] k = "int"      -> b(<<"i","n","t">>)
          [] k = "long"     -> b(<<"l","o","n","g">>)
          [] k = "float"    -> b(<<"d","o","u","b","l","e">>)
          [] k = "datetime" -> b(<<"d","a","t","e">>)
          [] k = "Binary"   -> b(<<"b","i","n","a","r","y">>)
          [] k = "Remote"   -> b(<<"r","e","m","o","t","e">>)
          [] k = "Call"     -> b(<<"c","a","l","l">>)
          [] k = "str"      -> b(<<"s","t","r","i","n","g">>)
          [] k = "unicode"  -> b(<<"s","t","r","i","n","g">>)
          [] k = "list"     -> b(<<"l","i","s","t">>)
          [] k = "tuple"    -> b(<<"l","i","s","t">>)
          [] k = "dict"     -> b(<<"m","a","p">>)]

encoder_for(data_type, r) ==
    IF Raised(r) THEN r
    ELSE IF data_type \in DOMAIN RETURN_TYPES
         THEN Return(Tuple(<<Str(RETURN_TYPES[data_type]), r.value>>))
         ELSE r


(***************************************************************************)
(* The handlers of class Encoder, as written (before @encoder_for wraps    *)
(* them).  `self` is the dispatch table of the class.                      *)
(***************************************************************************)
\* the longest chunk: the literal 65535 of the three chunking loops
ChunkMax == 65535

RECURSIVE encode(_, _)
RECURSIVE encode_arg(_, _)

encode_null(self, o) == Return(Str(b(<<"N">>)))

encode_boolean(self, o) ==
    IF o.truth THEN Return(Str(b(<<"T">>))) ELSE Return(Str(b(<<"F">>)))

encode_int(self, o) == Return(Str(pack_cl("I", o.int)))

encode_long(self, o) == Return(Str(pack_cq("L", o.int)))

encode_double(self, o) == Return(Str(pack_cd("D", o)))

encode_date(self, o) == Return(Str(pack_cq("d", timegm(timetuple(o)) * 1000)))

\* encode_unicode: the loop test, one pass of the loop body, the lines after it
encode_unicode_while(v) == Len(v) > ChunkMax

encode_unicode_body(st) ==
    [encoded |-> st.encoded \o pack_cH("s", ChunkMax)
                            \o utf8_encode(SubSeq(st.value, 1, ChunkMax)),
     value   |-> SubSeq(st.value, ChunkMax + 1, Len(st.value))]

\* the terminal chunk left out when nothing remains to be written
encode_unicode_end_nonempty(st) ==
    IF Len(st.value) = 0 THEN st.encoded
    ELSE st.encoded \o pack_cH("S", Len(st.value)) \o utf8_encode(st.value)

encode_unicode_end(st) ==
    st.encoded \o pack_cH("S", Len(st.value)) \o utf8_encode(st.value)

RECURSIVE encode_unicode_loop(_)
encode_unicode_loop(st) ==
    IF encode_unicode_while(st.value) THEN encode_unicode_loop(encode_unicode_body(st))
    ELSE st

encode_unicode(self, o) ==
    Return(Str(encode_unicode_end(
        encode_unicode_loop([encoded |-> <<>>, value |-> o.value]))))

\* encode_string
encode_string_while(v) == Len(v) > ChunkMax

encode_string_body(st) ==
    [encoded |-> st.encoded \o pack_cH("s", ChunkMax) \o SubSeq(st.value, 1, ChunkMax),
     value   |-> SubSeq(st.value, ChunkMax + 1, Len(st.value))]

encode_string_end(st) ==
    st.encoded \o pack_cH("S", utf8_decode_len(st.value)) \o st.value

RECURSIVE encode_string_loop(_)
encode_string_loop(st) ==
    IF encode_string_while(st.value) THEN encode_string_loop(encode_string_body(st))
    ELSE st

\* lines 166-181 once value.encode('ascii') has returned or raised
encode_string_encoded(v) ==
    IF Raised(v) THEN Raise(RefusesToGuess)
    ELSE Return(Str(encode_string_end(
             encode_string_loop([encoded |-> <<>>, value |-> v.value]))))

encode_string(self, o) == encode_string_encoded(ascii_encode(o.value))

\* encode_binary
encode_binary_while(v) == Len(v) > ChunkMax

encode_binary_body(st) ==
    [encoded |-> st.encoded \o pack_cH("b", ChunkMax) \o SubSeq(st.value, 1, ChunkMax),
     value   |-> SubSeq(st.value, ChunkMax + 1, Len(st.value))]

encode_binary_end(st) ==
    st.encoded \o pack_cH("B", Len(st.value)) \o st.value

RECURSIVE encode_binary_loop(_)
encode_binary_loop(st) ==
    IF encode_binary_while(st.value) THEN encode_binary_loop(encode_binary_body(st))
    ELSE st

encode_binary(self, o) ==
    Return(Str(encode_binary_end(
        encode_binary_loop([encoded |-> <<>>, value |-> o.value]))))

\* map(f, items) one item on: the results so far, or the first exception
map_cons(h, t) ==
    IF Raised(h) THEN h
    ELSE IF Raised(t) THEN t
    ELSE Return(<<h.value>> \o t.value)

\* map(self.encode, items): the list of encodings, or the first exception
RECURSIVE map_encode(_, _)
map_encode(self, items) ==
    IF items = <<>> THEN Return(<<>>)
    ELSE map_cons(encode(self, Head(items)), map_encode(self, Tail(items)))

\* pack('>2cl', b'V', b'l', n) + encoded + b'z', once map() has returned or raised
sequence_frame(n, m) ==
    IF Raised(m) THEN m
    ELSE Return(Str(pack_2cl("V", "l", n) \o reduce_add(m.value) \o b(<<"z">>)))

\* encode_list writing the length, as encode_tuple does
encode_list_counted(self, o) ==
    sequence_frame(Len(o.items), map_encode(self, o.items))

encode_list(self, o) == sequence_frame(-1, map_encode(self, o.items))

encode_tuple(self, o) == sequence_frame(Len(o.items), map_encode(self, o.items))

\* self.encode(pair[0]) + self.encode(pair[1]), once both have returned or raised
keyval_add(k, v) ==
    IF Raised(k) THEN k
    ELSE IF Raised(v) THEN v
    ELSE add(k.value, v.value)

encode_keyval(self, pair) ==
    keyval_add(encode(self, pair[1]), encode(self, pair[2]))

\* map(self.encode_keyval, items)
RECURSIVE map_encode_keyval(_, _)
map_encode_keyval(self, items) ==
    IF items = <<>> THEN Return(<<>>)
    ELSE map_cons(encode_keyval(self, Head(items)),
                  map_encode_keyval(self, Tail(items)))

\* pack('>c', b'M') + encoded + b'z', once map() has returned or raised
map_frame(keyvals) ==
    IF Raised(keyvals) THEN keyvals
    ELSE Return(Str(pack_c("M") \o reduce_add(keyvals.value) \o b(<<"z">>)))

encode_map(self, o) == map_frame(map_encode_keyval(self, o.pairs))

\* type(obj).__module__ and type(obj).__name__
class_module(k) ==
    IF k = "Object" THEN b(<<"m","u","s","t","a","i","n","e",".",
                             "p","r","o","t","o","c","o","l">>)
    ELSE b(<<"g","e","o">>)

class_name(k) ==
    CASE k = "Object" -> b(<<"O","b","j","e","c","t">>)
      [] k = "Point"  -> b(<<"P","o","i","n","t">>)
      [] OTHER        -> b(<<"R","e","c","o","r","d">>)

\* line 204
obj_type(o) == class_module(o.type) \o b(<<".">>) \o class_name(o.type)

\* line 205: pack('>cH', b't', len(obj_type)) + six.b(obj_type)
type_header(name) == pack_cH("t", Len(name)) \o name

\* lines 208-209 with the type name written ahead of the map
mobject_return_type_first(o, keyvals) ==
    IF Raised(keyvals) THEN keyvals
    ELSE Return(Tuple(<<Str(class_name(o.type)),
                        Str(type_header(obj_type(o)) \o pack_c("M")
                            \o reduce_add(keyvals.value) \o b(<<"z">>))>>))

\* lines 208-209, once map() has returned or raised
mobject_return(o, keyvals) ==
    IF Raised(keyvals) THEN keyvals
    ELSE Return(Tuple(<<Str(class_name(o.type)),
                        Str(pack_c("M") \o type_header(obj_type(o))
                            \o reduce_add(keyvals.value) \o b(<<"z">>))>>))

encode_mobject(self, o) == mobject_return(o, map_encode_keyval(self, o.state))

\* x + y where x is itself the result of a +
add_to(x, y) == IF Raised(x) THEN x ELSE add(x.value, y)

\* line 214, once self.encode_string has returned or raised
remote_return(o, enc) ==
    IF Raised(enc) THEN enc
    ELSE add_to(add(Str(pack_2cH("r", "t", Len(o.type_name.value))), o.type_name),
                enc.value)

\* self.encode_string looked up on the instance: the decorated method
encode_remote(self, o) ==
    remote_return(o, encoder_for("str", encode_string(self, o.url)))

\* encode_call, lines 238-242: what one header adds to headers
header_bytes(header, e) ==
    IF ~isinstance(header, "str") THEN Raise(HeaderKeys)
    ELSE IF Raised(e) THEN e
    ELSE Return(Str(pack_cH("H", Len(header.value)) \o header.value \o e.value.value))

\* encode_call: the loop over call.headers.items()
RECURSIVE call_headers(_, _)
call_headers(self, items) ==
    IF items = <<>> THEN Return(<<>>)
    ELSE map_cons(header_bytes(Head(items)[1], encode(self, Head(items)[2])),
                  call_headers(self, Tail(items)))

\* encode_call, line 245 for each argument in turn
RECURSIVE call_encode_args(_, _)
call_encode_args(self, args) ==
    IF args = <<>> THEN Return(<<>>)
    ELSE map_cons(encode_arg(self, Head(args)), call_encode_args(self, Tail(args)))

\* encode_call, lines 246-250 with the overload test inverted
RECURSIVE call_args_inverted(_, _, _)
call_args_inverted(call, args, st) ==
    IF args = <<>> THEN st
    ELSE call_args_inverted(call, Tail(args),
             [method    |-> IF ~call.overload
                            THEN st.method \o b(<<"_">>) \o Head(args).items[1].value
                            ELSE st.method,
              arguments |-> st.arguments \o Head(args).items[2].value])

\* encode_call, lines 246-250: args holds the (data_type, arg) pairs of line 245
RECURSIVE call_args(_, _, _)
call_args(call, args, st) ==
    IF args = <<>> THEN st
    ELSE call_args(call, Tail(args),
             [method    |-> IF call.overload
                            THEN st.method \o b(<<"_">>) \o Head(args).items[1].value
                            ELSE st.method,
              arguments |-> st.arguments \o Head(args).items[2].value])

\* encode_call, lines 252-258
call_encoded(call, headers, st) ==
    Return(Str(pack_cBB("c", call.version, 0)
               \o headers
               \o pack_cH("m", Len(st.method)) \o st.method
               \o st.arguments
               \o b(<<"z">>)))

\* encode_call once both loops have returned or raised: headers first
call_return(call, headers, args) ==
    IF Raised(headers) THEN headers
    ELSE IF Raised(args) THEN args
    ELSE call_encoded(call, reduce_add(headers.value),
             call_args(call, args.value,
                       [method |-> call.method.value, arguments |-> <<>>]))

encode_call(self, call) ==
    call_return(call, call_headers(self, call.headers),
                call_encode_args(self, call.args))

\* the handler registered for a data type, as decorated by @encoder_for
encoder(data_type, self, o) ==
    encoder_for(data_type,
        CASE data_type = "NoneType" -> encode_null(self, o)
          [] data_type = "bool"     -> encode_boolean(self, o)
          [] data_type = "int"      -> encode_int(self, o)
          [] data_type = "long"     -> encode_long(self, o)
          [] data_type = "float"    -> encode_double(self, o)
          [] data_type = "datetime" -> encode_date(self, o)
          [] data_type = "unicode"  -> encode_unicode(self, o)
          [] data_type = "str"      -> encode_string(self, o)
          [] data_type = "list"     -> encode_list(self, o)
          [] data_type = "tuple"    -> encode_tuple(self, o)
          [] data_type = "dict"     -> encode_map(self, o)
          [] data_type = "Object"   -> encode_mobject(self, o)
          [] data_type = "Remote"   -> encode_remote(self, o)
          [] data_type = "Binary"   -> encode_binary(self, o)
          [] data_type = "Call"     -> encode_call(self, o))

\* lines 112-114 falling back to the null handler when no entry matches
_encode_encoder_fallback(e, self, o) ==
    IF e = "None" THEN encoder("NoneType", self, o) ELSE encoder(e, self, o)

\* lines 112-114: raise when the scan found nothing, else call the encoder
_encode_encoder(e, self, o) ==
    IF e = "None" THEN Raise(CannotSerialize) ELSE encoder(e, self, o)

_encode(self, o) == _encode_encoder(find_encoder(self, o), self, o)

\* self._encode(obj)[1]
subscript_1(r) == IF Raised(r) THEN r ELSE Return(r.value.items[2])

encode(self, o) == subscript_1(_encode(self, o))

encode_arg(self, o) == _encode(self, o)

\* the module-level encode_object: a fresh Encoder, hence the class's table
encode_object(self, o) == encode(self, o)


(***************************************************************************)
(* The values the entry points are called with.                            *)
(***************************************************************************)
PyNone == [type |-> "NoneType"]
PyBool(x) == [type |-> "bool", truth |-> x]
PyInt(v) == [type |-> "int", int |-> v]
PyLong(v) == [type |-> "long", int |-> v]
PyFloat(bytes) == [type |-> "float", ieee754 |-> bytes]
PyDateTime(d, sec, us) ==
    [type |-> "datetime", days |-> d, seconds |-> sec, microsecond |-> us]
PyUnicode(cps) == [type |-> "unicode", value |-> cps]
PyBinary(bytes) == [type |-> "Binary", value |-> bytes]
PyRemote(type_name, url) == [type |-> "Remote", type_name |-> type_name, url |-> url]
PyList(items) == [type |-> "list", items |-> items]
PyDict(pairs) == [type |-> "dict", pairs |-> pairs]
PyObject(cls, state) == [type |-> cls, state |-> state]
PyCall(method, headers, args, version, overload) ==
    [type |-> "Call", method |-> method, headers |-> headers, args |-> args,
     version |-> version, overload |-> overload]
PyFrozenSet == [type |-> "frozenset"]

Seqs(S, n) == UNION {[1..k -> S] : k \in 0..n}

\* sequences of (key, value) pairs with distinct keys
Items(K, V, n) ==
    {s \in Seqs(K \X V, n) : \A i, j \in 1..Len(s) : s[i][1] = s[j][1] => i = j}

RECURSIVE Pow2(_)
Pow2(k) == IF k = 0 THEN 1 ELSE 2 * Pow2(k - 1)

\* 32-bit integers: around every power of two, and both ends of the range
IntSamples ==
    UNION {{Pow2(k), Pow2(k) - 1, -Pow2(k), -Pow2(k) - 1} : k \in 0..30}
    \cup {42, 2147483647, -2147483647, -2147483647 - 1}

Pi == PyFloat(<<64, 9, 33, 251, 84, 68, 45, 24>>)

DateTimes ==
    {PyDateTime(d, sec, us) : d \in {-1, 0, 1}, sec \in {0, 1, 86399},
                            us \in {0, 1, 999, 1000, 1999, 500000, 999999}}

Scalars ==
    {PyNone, PyBool(TRUE), PyBool(FALSE), PyLong(5), PyLong(-7), Pi, PyFrozenSet}
    \cup {PyInt(v) : v \in IntSamples} \cup DateTimes

\* "A", "e" with acute accent, the euro sign
CodePoints == {65, 233, 8364}
Texts == {PyUnicode(s) : s \in Seqs(CodePoints, MaxLen)}

ByteSamples == {65, 127, 128, 255}
Strings == {Str(s) : s \in Seqs(ByteSamples, MaxLen)}
Binaries == {PyBinary(s) : s \in Seqs({0, 255}, MaxLen)}

Remotes ==
    {PyRemote(t, u) : t \in {Str(<<>>), Str(b(<<"X">>)), Str(b(<<"a",".","B">>))},
                    u \in {Str(<<>>), Str(b(<<"u">>)), Str(b(<<"h","t","t","p">>)),
                           Str(<<200>>)}}

ARemote == PyRemote(Str(b(<<"X">>)), Str(b(<<"u">>)))

\* elements of the composite values
Elems ==
    {PyNone, PyBool(TRUE), PyInt(-2), PyUnicode(<<233>>), Str(<<65>>), Str(<<128>>),
     PyFrozenSet, ARemote}

Lists == {PyList(s) : s \in Seqs(Elems, MaxLen)}
Tuples == {Tuple(s) : s \in Seqs(Elems, MaxLen)}

Dicts ==
    {PyDict(s) : s \in Items({Str(b(<<"a">>)), PyInt(7), PyFrozenSet},
                           {PyInt(1), PyNone, PyFrozenSet, Str(<<255>>)}, MaxLen)}

Objects ==
    {PyObject(c, s) : c \in {"Object", "Point"},
                    s \in Items({Str(b(<<"x">>)), Str(b(<<"y">>))},
                                {PyInt(1), PyUnicode(<<8364>>), PyFrozenSet, ARemote}, MaxLen)}

\* one argument of every data type, and combinations of a few
ArgsEach ==
    {PyNone, PyBool(FALSE), PyInt(1), PyLong(5), Pi, PyDateTime(0, 1, 0), PyUnicode(<<233>>),
     Str(b(<<"b","a","r">>)), PyList(<<>>), Tuple(<<PyInt(1)>>), PyDict(<<>>),
     PyObject("Point", <<>>), PyBinary(<<255>>), ARemote, PyFrozenSet,
     PyCall(Str(b(<<"g">>)), <<>>, <<>>, 1, FALSE)}

ArgsMixed ==
    {PyInt(1), Str(b(<<"b","a","r">>)), PyBool(TRUE), PyObject("Point", <<>>),
     Tuple(<<PyInt(1)>>), PyFrozenSet}

Headers ==
    {<<>>,
     << <<Str(b(<<"h">>)), PyInt(1)>> >>,
     << <<Str(b(<<"h">>)), PyFrozenSet>> >>,
     << <<PyUnicode(<<104>>), PyInt(1)>> >>,
     << <<Str(b(<<"h">>)), PyUnicode(<<233>>)>>, <<Str(b(<<"k","k">>)), PyNone>> >>}

Calls ==
    {PyCall(Str(b(<<"f","o","o">>)), h, a, v, ov) :
        h \in Headers,
        a \in Seqs(ArgsMixed, MaxLen) \cup {<<x>> : x \in ArgsEach},
        v \in {1, 2},
        ov \in BOOLEAN}

\* composites inside composites
Inner ==
    {PyList(<<>>), PyList(<<PyInt(1)>>), PyList(<<PyFrozenSet>>), Tuple(<<PyNone, PyFrozenSet>>),
     Tuple(<<Str(<<65>>)>>), PyDict(<< <<Str(b(<<"a">>)), PyFrozenSet>> >>),
     PyDict(<< <<PyFrozenSet, PyInt(1)>> >>), PyObject("Point", << <<Str(b(<<"x">>)), PyFrozenSet>> >>),
     PyObject("Point", << <<Str(b(<<"x">>)), PyInt(1)>> >>),
     PyCall(Str(b(<<"g">>)), <<>>, <<PyFrozenSet>>, 1, TRUE),
     PyCall(Str(b(<<"g">>)), << <<Str(b(<<"h">>)), PyFrozenSet>> >>, <<>>, 1, FALSE),
     PyCall(Str(b(<<"g">>)), <<>>, <<PyInt(1)>>, 1, TRUE)}

Nested1 ==
    {PyList(<<x>>) : x \in Inner} \cup {Tuple(<<PyInt(1), x>>) : x \in Inner}
    \cup {PyDict(<< <<Str(b(<<"a">>)), x>> >>) : x \in Inner}
    \cup {PyObject("Object", << <<Str(b(<<"y">>)), x>> >>) : x \in Inner}
    \cup {PyCall(Str(b(<<"f">>)), <<>>, <<x>>, 1, TRUE) : x \in Inner}
    \cup {PyCall(Str(b(<<"f">>)), << <<Str(b(<<"h">>)), x>> >>, <<>>, 1, FALSE) : x \in Inner}

Nested2 == {PyList(<<PyBool(FALSE), x>>) : x \in Nested1}

Values ==
    Scalars \cup Texts \cup Strings \cup Binaries \cup Remotes \cup Lists \cup Tuples
    \cup Dicts \cup Objects \cup Calls \cup Nested1 \cup Nested2

ArgValues ==
    ArgsEach \cup Objects \cup Texts \cup {PyInt(v) : v \in {-1, 0, 42}}

ObjectValues == Scalars \cup Remotes


(***************************************************************************)
(* Calls of the entry points on the Encoder class as the module defines    *)
(* it.  The class statement has run: the table is one that sort_mro may    *)
(* have returned for the fifteen registered data types.                    *)
(***************************************************************************)
NoCall == [exc |-> "none", value |-> PyNone]

Init ==
    /\ encoders = EncoderTypes
    /\ mustaine_encoders \in sort_mro(EncoderTypes)
    /\ pc = "idle"
    /\ op = "none"
    /\ obj = PyNone
    /\ result = NoCall
    /\ value = <<>>
    /\ encoded = <<>>

\* Encoder.encode(obj)
Encode ==
    /\ pc = "idle"
    /\ \E o \in Values :
        /\ obj' = o
        /\ result' = encode(mustaine_encoders, o)
    /\ op' = "encode"
    /\ pc' = "done"
    /\ UNCHANGED <<encoders, mustaine_encoders, value, encoded>>

\* Encoder.encode_arg(obj)
EncodeArg ==
    /\ pc = "idle"
    /\ \E o \in ArgValues :
        /\ obj' = o
        /\ result' = encode_arg(mustaine_encoders, o)
    /\ op' = "encode_arg"
    /\ pc' = "done"
    /\ UNCHANGED <<encoders, mustaine_encoders, value, encoded>>

\* encode_object(obj)
EncodeObject ==
    /\ pc = "idle"
    /\ \E o \in ObjectValues :
        /\ obj' = o
        /\ result' = encode_object(mustaine_encoders, o)
    /\ op' = "encode_object"
    /\ pc' = "done"
    /\ UNCHANGED <<encoders, mustaine_encoders, value, encoded>>

\* the caller has taken the result; the encoder keeps nothing of the call
Finish ==
    /\ pc = "done"
    /\ pc' = "idle"
    /\ op' = "none"
    /\ obj' = PyNone
    /\ result' = NoCall
    /\ UNCHANGED <<encoders, mustaine_encoders, value, encoded>>

Next == Encode \/ EncodeArg \/ EncodeObject \/ Finish

Spec == Init /\ [][Next]_vars


(***************************************************************************)
(* Building a class with metaclass EncoderBase from any registrations,     *)
(* then dispatching on it.  The handlers of classes other than the         *)
(* module's fifteen are not given, so a dispatch records the entry that    *)
(* _encode selects (lines 107-113); with the module's own registrations    *)
(* the selected handler runs as well.                                      *)
(***************************************************************************)
Registrations == (SUBSET MroUniverse) \cup {EncoderTypes}

Instance(k) ==
    CASE k = "bool" -> PyBool(TRUE)
      [] k = "int"  -> PyInt(1)
      [] k \in {"Object", "Point", "Record"} -> PyObject(k, <<>>)
      [] k \in {"dict", "OrderedDict"} -> [type |-> k, pairs |-> <<>>]
      [] OTHER -> [type |-> k]

Instances == {Instance(k) : k \in MroUniverse \cup {"frozenset", "NoneType"}}

Selected(e) == [type |-> "encoder", data_type |-> e]

InitMro ==
    /\ encoders \in Registrations
    /\ mustaine_encoders = <<>>
    /\ pc = "class"
    /\ op = "none"
    /\ obj = PyNone
    /\ result = NoCall
    /\ value = <<>>
    /\ encoded = <<>>

\* EncoderBase.__new__: attrs['_mustaine_encoders'] = sort_mro(encoders)
EncoderBase_new ==
    /\ pc = "class"
    /\ mustaine_encoders' \in sort_mro(encoders)
    /\ pc' = "idle"
    /\ UNCHANGED <<encoders, op, obj, result, value, encoded>>

\* Encoder._encode up to the choice of the encoder
Dispatch ==
    /\ pc = "idle"
    /\ \E o \in Instances :
        /\ obj' = o
        /\ result' = LET e == find_encoder(mustaine_encoders, o)
                     IN  IF e = "None" THEN Raise(CannotSerialize)
                         ELSE Return(Selected(e))
    /\ op' = "_encode"
    /\ pc' = "done"
    /\ UNCHANGED <<encoders, mustaine_encoders, value, encoded>>

\* Encoder.encode on the class of the module
EncodeScalar ==
    /\ pc = "idle"
    /\ encoders = EncoderTypes
    /\ \E o \in {PyBool(TRUE), PyBool(FALSE), PyInt(0), PyInt(1), PyNone, PyFrozenSet} :
        /\ obj' = o
        /\ result' = encode(mustaine_encoders, o)
    /\ op' = "encode"
    /\ pc' = "done"
    /\ UNCHANGED <<encoders, mustaine_encoders, value, encoded>>

NextMro == EncoderBase_new \/ Dispatch \/ EncodeScalar \/ Finish

SpecMro == InitMro /\ [][NextMro]_vars


(***************************************************************************)
(* The three chunking handlers, one pass of their loops at a time, on      *)
(* inputs whose lengths lie around the multiples of 65535.                 *)
(***************************************************************************)
ChunkLengths ==
    {0, 1} \cup UNION {{k * ChunkMax - 1, k * ChunkMax, k * ChunkMax + 1} : k \in 1..MaxChunks}

\* n units, cycling through the alphabet
Pattern(n, alphabet) == [i \in 1..n |-> alphabet[(i % Len(alphabet)) + 1]] \o <<>>

ChunkTexts == {PyUnicode(Pattern(n, <<65, 233, 8364>>)) : n \in ChunkLengths}

AsciiPattern(n) == Pattern(n, <<65, 0, 127>>)

ChunkStrings ==
    {Str(AsciiPattern(n)) : n \in ChunkLengths}
    \cup UNION {{Str([AsciiPattern(n) EXCEPT ![i] = c]) : i \in {1, n}, c \in {128, 255}} :
                   n \in {1, ChunkMax + 1}}

ChunkBinaries == {PyBinary(Pattern(n, <<0, 200, 255>>)) : n \in ChunkLengths}

ChunkValues == ChunkTexts \cup ChunkStrings \cup ChunkBinaries \cup {PyFrozenSet}

Locals == [encoded |-> encoded, value |-> value]

\* Encoder.encode(obj) up to the loop of the handler that _encode selects
Enter ==
    /\ pc = "idle"
    /\ \E o \in ChunkValues :
        LET e == find_encoder(mustaine_encoders, o)
            v == ascii_encode(o.value)
        IN  /\ obj' = o
            /\ CASE e = "unicode" ->
                      /\ value' = o.value
                      /\ encoded' = <<>>
                      /\ pc' = "encode_unicode"
                      /\ UNCHANGED result
                 [] e = "Binary" ->
                      /\ value' = o.value
                      /\ encoded' = <<>>
                      /\ pc' = "encode_binary"
                      /\ UNCHANGED result
                 [] e = "str" /\ ~Raised(v) ->
                      /\ value' = v.value
                      /\ encoded' = <<>>
                      /\ pc' = "encode_string"
                      /\ UNCHANGED result
                 [] e = "str" /\ Raised(v) ->
                      /\ result' = Raise(RefusesToGuess)
                      /\ pc' = "done"
                      /\ UNCHANGED <<value, encoded>>
                 [] OTHER ->
                      /\ result' = Raise(CannotSerialize)
                      /\ pc' = "done"
                      /\ UNCHANGED <<value, encoded>>
    /\ op' = "encode"
    /\ UNCHANGED <<encoders, mustaine_encoders>>

\* one pass of `while len(value) > 65535` in encode_unicode
UnicodeLoop ==
    /\ pc = "encode_unicode"
    /\ encode_unicode_while(value)
    /\ encoded' = encode_unicode_body(Locals).encoded
    /\ value' = encode_unicode_body(Locals).value
    /\ UNCHANGED <<encoders, mustaine_encoders, pc, op, obj, result>>

\* the loop is left: the terminal chunk, and encode returns the bytes
UnicodeReturn ==
    /\ pc = "encode_unicode"
    /\ ~encode_unicode_while(value)
    /\ result' = Return(Str(encode_unicode_end(Locals)))
    /\ pc' = "done"
    /\ value' = <<>>
    /\ encoded' = <<>>
    /\ UNCHANGED <<encoders, mustaine_encoders, op, obj>>

StringLoop ==
    /\ pc = "encode_string"
    /\ encode_string_while(value)
    /\ encoded' = encode_string_body(Locals).encoded
    /\ value' = encode_string_body(Locals).value
    /\ UNCHANGED <<encoders, mustaine_encoders, pc, op, obj, result>>

StringReturn ==
    /\ pc = "encode_string"
    /\ ~encode_string_while(value)
    /\ result' = Return(Str(encode_string_end(Locals)))
    /\ pc' = "done"
    /\ value' = <<>>
    /\ encoded' = <<>>
    /\ UNCHANGED <<encoders, mustaine_encoders, op, obj>>

BinaryLoop ==
    /\ pc = "encode_binary"
    /\ encode_binary_while(value)
    /\ encoded' = encode_binary_body(Locals).encoded
    /\ value' = encode_binary_body(Locals).value
    /\ UNCHANGED <<encoders, mustaine_encoders, pc, op, obj, result>>

BinaryReturn ==
    /\ pc = "encode_binary"
    /\ ~encode_binary_while(value)
    /\ result' = Return(Str(encode_binary_end(Locals)))
    /\ pc' = "done"
    /\ value' = <<>>
    /\ encoded' = <<>>
    /\ UNCHANGED <<encoders, mustaine_encoders, op, obj>>

NextChunk ==
    \/ Enter
    \/ UnicodeLoop \/ UnicodeReturn
    \/ StringLoop \/ StringReturn
    \/ BinaryLoop \/ BinaryReturn
    \/ Finish

SpecChunk == Init /\ [][NextChunk]_vars


(***************************************************************************)
(*                              Properties                                 *)
(***************************************************************************)
Done(entry) == pc = "done" /\ op = entry

\* the bytes a successful encode returned
Output == result.value.value

\* the big-endian two's-complement bytes of v, each from floor division
TwosComplement(v, width) ==
    [i \in 1..width |->
        IF width - i < 4 THEN (v \div Pow2(8 * (width - i))) % 256
        ELSE IF v < 0 THEN 255 ELSE 0]

ProperAncestor(a, k) == a # k /\ a \in mro(k)

\* C1 (order): once the class is built, its table holds exactly the
\* registered types, each before every registered ancestor of it.
C1_Order ==
    pc # "class" =>
        /\ Range(mustaine_encoders) = encoders
        /\ Len(mustaine_encoders) = Cardinality(encoders)
        /\ \A i, j \in 1..Len(mustaine_encoders) :
              ProperAncestor(mustaine_encoders[j], mustaine_encoders[i]) => i < j

\* C1 (dispatch): the entry _encode selects is a registered type the value
\* is an instance of, and no other such type derives from it; when the value
\* is an instance of no registered type, _encode raises.
C1_MostSpecific ==
    Done("_encode") =>
        LET matching == {k \in encoders : isinstance(obj, k)}
        IN  IF matching = {} THEN result = Raise(CannotSerialize)
            ELSE /\ ~Raised(result)
                 /\ result.value.data_type \in matching
                 /\ \A k \in matching : ~ProperAncestor(result.value.data_type, k)

\* C1 (booleans): with the module's registrations a bool encodes as 'T' or
\* 'F', never as an integer.
C1_Boolean ==
    Done("encode") /\ obj.type = "bool" =>
        result = Return(Str(IF obj.truth THEN <<84>> ELSE <<70>>))

\* C1: In the dispatch table built by sort_mro every registered type comes
\* before each of its registered ancestors, so the first-match scan of
\* _encode selects the most specific registered type, and a boolean always
\* encodes as 'T' or 'F'.
C1_SubtypesFirst == C1_Order /\ C1_MostSpecific /\ C1_Boolean

\* a bool dispatched on a class that registers bool, int and object
C1_Witness ==
    /\ Done("_encode")
    /\ {"object", "int", "bool"} \subseteq encoders
    /\ obj.type = "bool"
    /\ result = Return(Selected("bool"))

\* C6: For every 32-bit signed integer v, encode(v) is 5 bytes: 'I', then
\* the big-endian two's complement of v.
C6_IntShape ==
    pc = "done" /\ op \in {"encode", "encode_object"} /\ obj.type = "int" =>
        /\ ~Raised(result)
        /\ Len(Output) = 5
        /\ Output[1] = 73
        /\ SubSeq(Output, 2, 5) = TwosComplement(obj.int, 4)

\* the most negative 32-bit integer has been encoded
C6_Witness ==
    /\ Done("encode")
    /\ obj = PyInt(-2147483647 - 1)
    /\ Output = <<73, 128, 0, 0, 0>>

\* the full encodings of the items, concatenated in order
RECURSIVE Encodings(_)
Encodings(items) ==
    IF items = <<>> THEN <<>>
    ELSE encode(mustaine_encoders, Head(items)).value.value \o Encodings(Tail(items))

AllEncode(items) ==
    \A i \in 1..Len(items) : ~Raised(encode(mustaine_encoders, items[i]))

\* C10: A sequence whose elements all encode is 'V' 'l', a 4-byte big-endian
\* signed count, the elements' encodings in order and 'z'; the count is the
\* number of elements for a tuple and -1 for a list of any length.
C10_SequenceFraming ==
    Done("encode") /\ obj.type \in {"list", "tuple"} /\ AllEncode(obj.items) =>
        /\ ~Raised(result)
        /\ Output = <<86, 108>>
                   \o TwosComplement(IF obj.type = "tuple" THEN Len(obj.items) ELSE -1, 4)
                   \o Encodings(obj.items)
                   \o <<122>>
        /\ (obj = PyList(<<>>) => Output = <<86, 108, 255, 255, 255, 255, 122>>)

\* a list of as many elements as the model allows has been encoded
C10_Witness ==
    /\ Done("encode")
    /\ obj.type = "list"
    /\ Len(obj.items) = MaxLen
    /\ ~Raised(result)
    /\ SubSeq(Output, 1, 6) = <<86, 108, 255, 255, 255, 255>>


\* a 16-bit big-endian count
Count16(n) == <<n \div 256, n % 256>>

\* the header section of a call frame: 'H', length, name, the value's encoding
RECURSIVE HeaderSection(_)
HeaderSection(items) ==
    IF items = <<>> THEN <<>>
    ELSE <<72>> \o Count16(Len(Head(items)[1].value)) \o Head(items)[1].value
         \o encode(mustaine_encoders, Head(items)[2]).value.value
         \o HeaderSection(Tail(items))

\* for each argument, an underscore and the tag encode_arg returns for it
RECURSIVE TagSuffix(_)
TagSuffix(args) ==
    IF args = <<>> THEN <<>>
    ELSE <<95>> \o encode_arg(mustaine_encoders, Head(args)).value.items[1].value
         \o TagSuffix(Tail(args))

\* the bytes encode_arg returns for the arguments, concatenated in order
RECURSIVE ArgumentSection(_)
ArgumentSection(args) ==
    IF args = <<>> THEN <<>>
    ELSE encode_arg(mustaine_encoders, Head(args)).value.items[2].value
         \o ArgumentSection(Tail(args))

\* C3: A call that encodes is 'c', version, 0, the headers, 'm', the 16-bit
\* length of the written name, the written name, the arguments' bytes and
\* 'z'.  With the overload flag the written name is the method name followed
\* by "_" and the tag of each argument in order; without it, the method name.
\* The argument section never holds a tag.
C3_OverloadNaming ==
    Done("encode") /\ obj.type = "Call" /\ ~Raised(result) =>
        LET name == IF obj.overload THEN obj.method.value \o TagSuffix(obj.args)
                    ELSE obj.method.value
        IN  Output = <<99, obj.version, 0>>
                     \o HeaderSection(obj.headers)
                     \o <<109>> \o Count16(Len(name)) \o name
                     \o ArgumentSection(obj.args)
                     \o <<122>>

\* foo(1, 'bar') with the overload flag has been written as foo_int_string
C3_Witness ==
    /\ Done("encode")
    /\ obj = PyCall(Str(b(<<"f","o","o">>)), <<>>,
                    <<PyInt(1), Str(b(<<"b","a","r">>))>>, 1, TRUE)
    /\ Output = <<99, 1, 0, 109, 0, 14>>
                \o b(<<"f","o","o","_","i","n","t","_","s","t","r","i","n","g">>)
                \o <<73, 0, 0, 0, 1>> \o <<83, 0, 3, 98, 97, 114>> \o <<122>>

\* the (field name, field value) encodings of an object's state, in order
RECURSIVE FieldPairs(_)
FieldPairs(state) ==
    IF state = <<>> THEN <<>>
    ELSE encode(mustaine_encoders, Head(state)[1]).value.value
         \o encode(mustaine_encoders, Head(state)[2]).value.value
         \o FieldPairs(Tail(state))

QualifiedName(k) == class_module(k) \o <<46>> \o class_name(k)

IsTypedObject(o) == "Object" \in mro(o.type)

\* C8 as stated: 't', length and type name first, then the 'M'-framed
\* fields and 'z'; encode_arg pairs the bytes with the simple type name.
C8_TypeNameBeforeMap ==
    Done("encode_arg") /\ IsTypedObject(obj) /\ ~Raised(result) =>
        result.value =
            Tuple(<<Str(class_name(obj.type)),
                    Str(<<116>> \o Count16(Len(QualifiedName(obj.type)))
                        \o QualifiedName(obj.type)
                        \o <<77>> \o FieldPairs(obj.state) \o <<122>>)>>)

\* C8 (amended): A typed object whose fields encode is 'M', then 't' with
\* the 16-bit length and the bytes of the qualified type name, then the
\* (field name, field value) encodings in state order, then 'z'; encode_arg
\* pairs these bytes with the simple type name, and encode returns them.
C8_TypeNameInsideMap ==
    /\ Done("encode_arg") /\ IsTypedObject(obj) /\ ~Raised(result) =>
        result.value =
            Tuple(<<Str(class_name(obj.type)),
                    Str(<<77, 116>> \o Count16(Len(QualifiedName(obj.type)))
                        \o QualifiedName(obj.type)
                        \o FieldPairs(obj.state) \o <<122>>)>>)
    /\ Done("encode") /\ IsTypedObject(obj) /\ ~Raised(result) =>
        Output = <<77, 116>> \o Count16(Len(QualifiedName(obj.type)))
                 \o QualifiedName(obj.type)
                 \o FieldPairs(obj.state) \o <<122>>

\* encode_arg has returned for a Point with as many fields as the model allows
C8_Witness ==
    /\ Done("encode_arg")
    /\ obj.type = "Point"
    /\ Len(obj.state) = MaxLen
    /\ ~Raised(result)
    /\ result.value.items[1] = Str(b(<<"P","o","i","n","t">>))

\* C9: Encoding a remote reference succeeds and returns 'r' 't', the 16-bit
\* length of the type name, the type name, and the encoding of the URL as
\* text.
C9_RemoteEncodes ==
    Done("encode") /\ obj.type = "Remote" =>
        /\ ~Raised(result)
        /\ Output = <<114, 116>> \o Count16(Len(obj.type_name.value))
                    \o obj.type_name.value
                    \o encode(mustaine_encoders, PyUnicode(obj.url.value)).value.value

\* milliseconds from the epoch to a timestamp, whole milliseconds only
Milliseconds(dt) == (dt.days * 86400 + dt.seconds) * 1000 + dt.microsecond \div 1000

\* C7: A timestamp encodes as 'd' and the 8-byte big-endian count of whole
\* milliseconds since the epoch, floor(microseconds / 1000).
C7_MillisecondsKept ==
    Done("encode") /\ obj.type = "datetime" =>
        /\ ~Raised(result)
        /\ Output = <<100>> \o TwosComplement(Milliseconds(obj), 8)


\* no registered data type matches the value's runtime type
Unsupported(o) == mro(o.type) \cap EncoderTypes = {}

\* the values _encode is called with directly while o is encoded
Children(o) ==
    IF Unsupported(o) THEN {}
    ELSE IF isinstance(o, "list") \/ isinstance(o, "tuple") THEN Range(o.items)
    ELSE IF isinstance(o, "dict")
         THEN {p[1] : p \in Range(o.pairs)} \cup {p[2] : p \in Range(o.pairs)}
    ELSE IF isinstance(o, "Object")
         THEN {p[1] : p \in Range(o.state)} \cup {p[2] : p \in Range(o.state)}
    ELSE IF isinstance(o, "Call")
         THEN {p[2] : p \in Range(o.headers)} \cup Range(o.args)
    ELSE {}

\* some part of the value, at any depth, is of an unsupported type
RECURSIVE HasUnsupported(_)
HasUnsupported(o) == Unsupported(o) \/ \E c \in Children(o) : HasUnsupported(c)

\* the value itself raises an error of its own kind
FailsItself(o) ==
    \/ isinstance(o, "str") /\ \E i \in DOMAIN o.value : o.value[i] > 127
    \/ isinstance(o, "Remote")
    \/ isinstance(o, "Call") /\ \E p \in Range(o.headers) : ~isinstance(p[1], "str")

RECURSIVE HasOtherFailure(_)
HasOtherFailure(o) == FailsItself(o) \/ \E c \in Children(o) : HasOtherFailure(c)

Chunked(o) == o.type \in {"unicode", "str", "Binary"}

InLoop == pc \in {"encode_unicode", "encode_string", "encode_binary"}

\* what a chunk carries for a run of units: the UTF-8 of characters, the
\* bytes themselves otherwise
Payload(o, units) == IF o.type = "unicode" THEN utf8_encode(units) ELSE units

\* one chunk: tag, 16-bit count of units, payload
Chunk(o, tag, units) == <<tag>> \o Count16(Len(units)) \o Payload(o, units)

\* q continuation chunks of 65535 units each, then the terminal chunk with
\* the remaining units
RECURSIVE ChunkSequence(_, _, _)
ChunkSequence(o, units, q) ==
    IF q = 0 THEN Chunk(o, IF o.type = "Binary" THEN 66 ELSE 83, units)
    ELSE Chunk(o, IF o.type = "Binary" THEN 98 ELSE 115, SubSeq(units, 1, 65535))
         \o ChunkSequence(o, SubSeq(units, 65536, Len(units)), q - 1)

\* the numbers of continuation chunks the claim allows for n units
ContinuationCounts(n) ==
    IF n = 65536 THEN {1}
    ELSE {q \in 0..(MaxChunks + 1) :
            /\ n - q * 65535 \in 0..65535
            /\ n <= 65535 => q = 0}

\* C2 (output): the output for n units is some number of continuation
\* chunks of exactly 65535 units and one terminal chunk with the remaining
\* 0..65535 units, the payloads in input order; none for n <= 65535, one
\* (and a terminal chunk of 1) for n = 65536.  Text and binary never fail, a
\* byte string only on a byte above 0x7F.
C2_Output ==
    Done("encode") /\ Chunked(obj) =>
        IF Raised(result)
        THEN obj.type = "str" /\ \E i \in DOMAIN obj.value : obj.value[i] > 127
        ELSE \E q \in ContinuationCounts(Len(obj.value)) :
                Output = ChunkSequence(obj, obj.value, q)

\* C2 (termination): every step taken inside a chunking loop either leaves
\* the loop or shortens what remains to be written
C2_Variant ==
    InLoop => \/ pc' = "done"
              \/ pc' = pc /\ Len(value') < Len(value)

\* C2: For text, byte strings and binary, the chunking loop terminates and
\* the output is continuation chunks of exactly 65535 units followed by
\* exactly one terminal chunk of the remaining 0..65535 units.
C2_Chunking == []C2_Output /\ [][C2_Variant]_vars

\* a binary value of 65536 bytes has been written as a 'b' chunk of 65535
\* bytes and a 'B' chunk of one byte
C2_Witness ==
    /\ Done("encode")
    /\ obj.type = "Binary"
    /\ Len(obj.value) = 65536
    /\ ~Raised(result)
    /\ Len(Output) = 65536 + 6
    /\ SubSeq(Output, 1, 3) = <<98, 255, 255>>
    /\ SubSeq(Output, 65539, 65542) = <<66, 0, 1, obj.value[65536]>>

\* the payloads of the chunks of an output whose units are single bytes
RECURSIVE Payloads(_)
Payloads(out) ==
    IF Len(out) < 3 THEN <<>>
    ELSE LET n == out[2] * 256 + out[3]
         IN  SubSeq(out, 4, 3 + n) \o Payloads(SubSeq(out, 4 + n, Len(out)))

\* C5: Encoding a byte string fails with "refuses to guess the encoding"
\* exactly when one of its bytes is 0x80 or above; otherwise it succeeds and
\* the payload bytes written are the input bytes.
C5_AsciiOnly ==
    Done("encode") /\ obj.type = "str" =>
        IF \E i \in DOMAIN obj.value : obj.value[i] >= 128
        THEN result = Raise(RefusesToGuess)
        ELSE ~Raised(result) /\ Payloads(Output) = obj.value

\* a byte string of 65536 bytes ending in 0x80 has been refused
C5_Witness ==
    /\ Done("encode")
    /\ obj.type = "str"
    /\ Len(obj.value) = 65536
    /\ obj.value[65536] = 128
    /\ \A i \in 1..65535 : obj.value[i] < 128
    /\ result = Raise(RefusesToGuess)

=============================================================================
